---- MODULE Spec2Model ----
(***************************************************************************)
(* A model of latentscope/scripts/label_clusters.py: the cluster labeler   *)
(* (digest extraction under a token budget, model call, label cleaning,    *)
(* per-cluster checkpoint and resume), and of the scope naming of          *)
(* latentscope/server/datasets.py.                                         *)
(*                                                                         *)
(* A Python str is a sequence of one-character strings.  Cluster indices   *)
(* are 0-based as in the source; row i of a table t is t[i + 1].           *)
(***************************************************************************)
EXTENDS Integers, Sequences, FiniteSets, TLC

VARIABLES
    pc,             \* where the labeler process is
    rerun,          \* the rerun argument of labeler (an option: None or an id)
    label_id,       \* the run identifier in use
    clusters,       \* the in-memory Label Run table
    unlabeled_row,  \* line 64 / 70
    max_tokens,     \* line 96
    extracts,       \* line 104: one digest per cluster
    i,              \* the loop index of line 121
    label,          \* line 134: the raw model output of the current iteration
    disk,           \* the cluster directory: file name -> content
    exit_code,      \* the exit status of the last process that ended
    cause,          \* why the last process ended
    calls,          \* history: the cluster indices model.chat was called for, this run
    loaded,         \* history: the table this run started from
    wrote_meta,     \* history: this run wrote its metadata object
    failures,       \* history: number of model calls that raised or returned no str
    recovering,     \* history: this run re-invokes, by its id, a run the model failed
    df_indices,     \* input: the 'indices' column of the cluster table, one list per row
    model_max,      \* input: model.params["max_tokens"]
    context,        \* input: the context argument
    texts,          \* line 109: the rendered list of each row, before truncation
    writes,         \* history: the to_parquet calls of line 154 that returned, this run
    dup,            \* a call of too_many_duplicates: its arguments and its return value
    scopes,         \* datasets.py: the names of the files in the scopes directory
    last_save       \* datasets.py: what the last save_dataset_scope request did

vars == << pc, rerun, label_id, clusters, unlabeled_row, max_tokens, extracts, i,
           label, disk, exit_code, cause, calls, loaded, wrote_meta,
           failures, recovering, df_indices, model_max,
           context, texts, writes, dup, scopes, last_save >>

(***************************************************************************)
(* Bounds                                                                  *)
(***************************************************************************)
NumClusters == 3
MaxRuns == 1
MaxFailures == 2

(***************************************************************************)
(* Python values and text primitives                                       *)
(***************************************************************************)
NL == "\n"
DQ == "\""
SQ == "'"
Whitespace == {" ", NL, "\t"}

\* Python's None where a str is expected, and pandas' NaN in an unset cell
NoneValue == << "None" >>
NaN == << "NaN" >>
\* first_valid_index() of an empty frame is None
NoneRow == -1

Min(a, b) == IF a < b THEN a ELSE b
Max(a, b) == IF a > b THEN a ELSE b

\* seq[:n] with Python's meaning of a negative n
PyPrefix(seq, n) ==
    IF n >= 0 THEN SubSeq(seq, 1, Min(n, Len(seq)))
              ELSE SubSeq(seq, 1, Max(Len(seq) + n, 0))

\* str.replace(a, b) for one-character a and b
Replace(s, a, b) == [k \in 1..Len(s) |-> IF s[k] = a THEN b ELSE s[k]]

\* str.replace(a, '')
Remove(s, a) == SelectSeq(s, LAMBDA c : c # a)

RECURSIVE SplitWsFrom(_, _, _, _)
SplitWsFrom(s, k, cur, acc) ==
    IF k > Len(s)
    THEN IF cur = << >> THEN acc ELSE Append(acc, cur)
    ELSE IF s[k] \in Whitespace
         THEN SplitWsFrom(s, k + 1, << >>, IF cur = << >> THEN acc ELSE Append(acc, cur))
         ELSE SplitWsFrom(s, k + 1, Append(cur, s[k]), acc)

\* str.split(): split on runs of whitespace, no empty words
split(s) == SplitWsFrom(s, 1, << >>, << >>)

RECURSIVE SplitSepFrom(_, _, _, _, _)
SplitSepFrom(s, sep, k, cur, acc) ==
    IF k > Len(s)
    THEN Append(acc, cur)
    ELSE IF s[k] = sep
         THEN SplitSepFrom(s, sep, k + 1, << >>, Append(acc, cur))
         ELSE SplitSepFrom(s, sep, k + 1, Append(cur, s[k]), acc)

\* str.split(sep): split on every sep, empty words kept
split_on(s, sep) == SplitSepFrom(s, sep, 1, << >>, << >>)

RECURSIVE join(_, _)
\* sep.join(words)
join(sep, words) ==
    IF words = << >> THEN << >>
    ELSE IF Len(words) = 1 THEN words[1]
    ELSE words[1] \o sep \o join(sep, Tail(words))

\* the cleaning without line 140: single quotes stay
clean_label_keep_single_quotes(raw) ==
    LET a == Replace(raw, NL, " ")
        b == Remove(a, DQ)
        d == join(<< " " >>, split(b))
    IN  join(<< " " >>, PyPrefix(split_on(d, " "), 5))

\* lines 138-143
clean_label_of(raw) ==
    LET a == Replace(raw, NL, " ")
        b == Remove(a, DQ)
        c == Remove(b, SQ)
        d == join(<< " " >>, split(c))
    IN  join(<< " " >>, PyPrefix(split_on(d, " "), 5))

(***************************************************************************)
(* too_many_duplicates, lines 27-34                                        *)
(***************************************************************************)
DefaultThreshold == 10

\* word_count[word] after the loop of lines 32-33
word_count(words, word) == Cardinality({k \in DOMAIN words : words[k] = word})

\* too_many_duplicates with >= in place of the > of line 34
too_many_duplicates_at_least(line, threshold) ==
    IF line = << >> \/ line = NoneValue
    THEN FALSE
    ELSE LET words == split(line)
         IN  \E k \in DOMAIN words : word_count(words, words[k]) >= threshold

too_many_duplicates(line, threshold) ==
    IF line = << >> \/ line = NoneValue
    THEN FALSE
    ELSE LET words == split(line)
         IN  \E k \in DOMAIN words : word_count(words, words[k]) > threshold

(***************************************************************************)
(* The chat model's encoder.  It is not part of the labeler: a tokenizer   *)
(* that scans left to right and merges two adjacent non-whitespace         *)
(* characters into one token stands for it.                                *)
(***************************************************************************)
RECURSIVE EncodeFrom(_, _, _)
EncodeFrom(s, k, acc) ==
    IF k > Len(s) THEN acc
    ELSE IF k < Len(s) /\ s[k] \notin Whitespace /\ s[k + 1] \notin Whitespace
         THEN EncodeFrom(s, k + 2, Append(acc, << s[k], s[k + 1] >>))
         ELSE EncodeFrom(s, k + 1, Append(acc, << s[k] >>))

enc_encode(s) == EncodeFrom(s, 1, << >>)

enc_decode(tokens) == join(<< >>, tokens)

(***************************************************************************)
(* The digest of one cluster, lines 96-113                                 *)
(***************************************************************************)
Margin == 10

DigitChar == << "0", "1", "2", "3", "4", "5", "6", "7", "8", "9" >>

RECURSIVE str(_)
\* str(n) for an integer n >= 0
str(n) == IF n < 10 THEN << DigitChar[n + 1] >>
          ELSE str(n \div 10) \o << DigitChar[(n % 10) + 1] >>

\* lines 90-93: the fixed prompt text around the caller's context
system_prompt(ctx) == << "S" >> \o << NL >> \o ctx \o << NL >> \o << "T" >>

\* line 96
max_tokens_of(capacity, ctx) == capacity - Len(enc_encode(system_prompt(ctx))) - Margin

\* line 107: df.loc[list(indices), text_column]
loc(df, indices) == [k \in 1..Len(indices) |-> df[indices[k] + 1]]

RECURSIVE DropFrom(_, _, _)
DropFrom(items, k, acc) ==
    IF k > Len(items) THEN acc
    ELSE IF \E j \in 1..(k - 1) : items[j] = items[k]
         THEN DropFrom(items, k + 1, acc)
         ELSE DropFrom(items, k + 1, Append(acc, items[k]))

\* drop_duplicates(keep='last'): the last occurrence of each value is kept
drop_duplicates_keep_last(items) ==
    LET kept == {k \in 1..Len(items) : \A j \in (k + 1)..Len(items) : items[j] # items[k]}
        Nth[n \in 1..Cardinality(kept)] ==
            CHOOSE k \in kept : Cardinality({j \in kept : j < k}) = n - 1
    IN  [n \in 1..Cardinality(kept) |-> items[Nth[n]]]

\* line 108: Series.drop_duplicates(), first occurrences kept in order
drop_duplicates(items) == DropFrom(items, 1, << >>)

RECURSIVE LinesFrom(_, _, _)
\* the list comprehension of line 109; k is enumerate's i + 1
LinesFrom(items, k, acc) ==
    IF k > Len(items) THEN acc
    ELSE IF too_many_duplicates(items[k], DefaultThreshold)
         THEN LinesFrom(items, k + 1, acc)
         ELSE LinesFrom(items, k + 1,
                        Append(acc, str(k) \o << ".", " " >> \o items[k]))

\* line 109
render(items) == join(<< NL >>, LinesFrom(items, 1, << >>))

\* lines 111-112
truncate(encoded_text, budget) ==
    IF Len(encoded_text) > budget THEN PyPrefix(encoded_text, budget) ELSE encoded_text

\* lines 106-109, for one row of the cluster table
text_of(df, indices) == render(drop_duplicates(loc(df, indices)))

\* lines 110-113
extract_of(text, budget) == enc_decode(truncate(enc_encode(text), budget))

(***************************************************************************)
(* Run identifiers and the cluster directory                               *)
(*                                                                         *)
(* The id [cluster |-> c, suffix |-> s] is the string c + "-labels-" + s;  *)
(* EmptyId is the string "".  A file name is an id and an extension, and   *)
(* the directory holds .parquet and .json files only.                      *)
(***************************************************************************)
ClusterId == "cluster-001"
OtherClusterId == "cluster-002"

EmptyId == [cluster |-> "", suffix |-> << >>]
DefaultId(cluster_id) == [cluster |-> cluster_id, suffix |-> << "default" >>]
FileOf(id, ext) == [stem |-> id, ext |-> ext]

\* the rerun argument: None, or a string
None == [some |-> FALSE, id |-> EmptyId]
Some(id) == [some |-> TRUE, id |-> id]

IsDigits(s) == Len(s) >= 1 /\ \A k \in 1..Len(s) : \E d \in 1..10 : DigitChar[d] = s[k]

DigitVal(c) == (CHOOSE d \in 1..10 : DigitChar[d] = c) - 1

RECURSIVE int(_)
\* int(s) for a string of decimal digits
int(s) == IF Len(s) = 1 THEN DigitVal(s[1])
          ELSE 10 * int(SubSeq(s, 1, Len(s) - 1)) + DigitVal(s[Len(s)])

\* f"{n:03d}"
format_03d(n) ==
    LET d == str(n)
    IN  IF Len(d) >= 3 THEN d ELSE [k \in 1..(3 - Len(d)) |-> "0"] \o d

\* lines 76 and 79: re.match(rf"{re.escape(cluster_id)}-labels-\d+\.parquet", f)
re_match(cluster_id, f) ==
    /\ f.stem.cluster = cluster_id
    /\ IsDigits(f.stem.suffix)
    /\ f.ext = "parquet"

\* line 76
label_files(listdir, cluster_id) == {f \in listdir : re_match(cluster_id, f)}

\* line 79
label_numbers(listdir, cluster_id) ==
    {int(f.stem.suffix) : f \in label_files(listdir, cluster_id)}

SetMax(S) == CHOOSE m \in S : \A x \in S : x <= m

\* next_label_number from the number of run tables, not from their largest number
next_label_number_by_count(listdir, cluster_id) ==
    Cardinality(label_files(listdir, cluster_id)) + 1

\* lines 77-82
next_label_number(listdir, cluster_id) ==
    IF label_files(listdir, cluster_id) # {}
    THEN SetMax(label_numbers(listdir, cluster_id)) + 1
    ELSE 1

\* line 83
fresh_label_id(listdir, cluster_id) ==
    [cluster |-> cluster_id, suffix |-> format_03d(next_label_number(listdir, cluster_id))]

RunId(n) == [cluster |-> ClusterId, suffix |-> format_03d(n)]

\* a readable table, and a file that cannot be read as one
Table(rows) == [ok |-> TRUE, rows |-> rows]
Corrupt == [ok |-> FALSE, rows |-> << >>]

Exists(f) == f \in DOMAIN disk
Put(d, f, content) == [g \in (DOMAIN d) \cup {f} |-> IF g = f THEN content ELSE d[g]]

(***************************************************************************)
(* The Label Run table                                                     *)
(***************************************************************************)
DefaultLabel == << "C" >>

\* a row of <cluster_id>-labels-default.parquet after lines 59-62
DefaultEntry == [label |-> DefaultLabel, label_raw |-> NaN, labeled |-> FALSE]
DefaultRows == [k \in 1..NumClusters |-> DefaultEntry]

Indices == 0..(NumClusters - 1)

\* first_unlabeled with 0 in place of None when every row is labeled
first_unlabeled_or_zero(rows) ==
    IF \E k \in 1..Len(rows) : ~rows[k].labeled
    THEN (CHOOSE k \in 1..Len(rows) :
            /\ ~rows[k].labeled
            /\ \A j \in 1..(k - 1) : rows[j].labeled) - 1
    ELSE 0

\* line 70: clusters[~clusters['labeled']].first_valid_index()
first_unlabeled(rows) ==
    IF \E k \in 1..Len(rows) : ~rows[k].labeled
    THEN (CHOOSE k \in 1..Len(rows) :
            /\ ~rows[k].labeled
            /\ \A j \in 1..(k - 1) : rows[j].labeled) - 1
    ELSE NoneRow

\* lines 123-124: the guard of the skip
skip_guard(row, rows, idx) == row > 0 /\ rows[idx + 1].labeled

\* lines 147-149
set_entry(rows, idx, raw) ==
    [rows EXCEPT ![idx + 1] =
        [label |-> clean_label_of(raw), label_raw |-> raw, labeled |-> TRUE]]

AllLabeled(rows) == \A k \in 1..Len(rows) : rows[k].labeled

(***************************************************************************)
(* Inputs                                                                  *)
(***************************************************************************)
RECURSIVE Repeat(_, _)
\* n copies of word, separated by single spaces
Repeat(word, n) == IF n <= 1 THEN word ELSE word \o << " " >> \o Repeat(word, n - 1)

\* the text column of input.parquet, record ids 0..5
Df == << << "a" >>,
         << "a" >>,
         Repeat(<< "x" >>, DefaultThreshold + 1),
         << "b", " ", "c" >>,
         Repeat(<< "x" >>, DefaultThreshold),
         << >> >>

RecordIds == 0..(Len(Df) - 1)

\* what model.chat may return: text, or a value that is not a str
ModelOutputs == { << "A", NL, "B" >>, << DQ, " " >>, NoneValue }

\* the run identifiers a caller may pass as --rerun
RerunIds == {RunId(n) : n \in 1..MaxRuns}

(***************************************************************************)
(* The labeler process, lines 36-178                                       *)
(***************************************************************************)
inputs == << df_indices, model_max, context >>
\* the state outside the labeler process
others == << dup, scopes, last_save >>
\* the state of the labeler process and its directory
labeler_state == << pc, rerun, label_id, clusters, unlabeled_row, max_tokens, extracts, i,
                    label, disk, exit_code, cause, calls, loaded, wrote_meta, failures,
                    recovering, texts, writes, inputs >>
locals == << clusters, unlabeled_row, max_tokens, extracts, texts, i, label >>

\* the last process ended in lines 157-161 on a failing model call or cleaning step
ModelFailed == pc = "exited" /\ cause \in {"model_error", "clean_error"}

\* a new process: nothing in memory yet
Start(arg) ==
    /\ pc \in {"idle", "exited"}
    /\ pc' = "start"
    /\ rerun' = arg
    /\ label_id' = EmptyId
    /\ clusters' = << >>
    /\ unlabeled_row' = 0
    /\ max_tokens' = 0
    /\ extracts' = << >>
    /\ texts' = << >>
    /\ i' = 0
    /\ label' = << >>
    /\ exit_code' = 0
    /\ cause' = "none"
    /\ calls' = << >>
    /\ loaded' = << >>
    /\ wrote_meta' = FALSE
    /\ recovering' = (ModelFailed /\ arg = Some(label_id))
    /\ writes' = 0
    /\ UNCHANGED << disk, failures, inputs, others >>

\* lines 36-48: ls-label without --rerun, args.rerun is None
InvokeMain ==
    /\ next_label_number(DOMAIN disk, ClusterId) <= MaxRuns
    /\ Start(None)

\* lines 36-48: ls-label with --rerun <id>
InvokeMainRerun ==
    \E id \in RerunIds : Start(Some(id))

\* line 51: labeler called with its default argument rerun=""
InvokeLabelerDefault ==
    Start(Some(EmptyId))

\* an uncaught exception or exit(1): the process ends with status 1
Die(why) ==
    /\ pc' = "exited"
    /\ exit_code' = 1
    /\ cause' = why

\* lines 52-64 and 74-84, rerun is None
SetupFresh ==
    /\ pc = "start"
    /\ ~rerun.some
    /\ clusters' = DefaultRows
    /\ unlabeled_row' = 0
    /\ label_id' = fresh_label_id(DOMAIN disk, ClusterId)
    /\ loaded' = DefaultRows
    /\ pc' = "budget"
    /\ UNCHANGED << rerun, max_tokens, extracts, texts, i, label, disk, exit_code, cause,
                    calls, wrote_meta, failures, recovering, inputs, writes, others >>

\* lines 52-71, rerun is not None and <rerun>.parquet can be read
SetupRerun ==
    /\ pc = "start"
    /\ rerun.some
    /\ Exists(FileOf(rerun.id, "parquet"))
    /\ disk[FileOf(rerun.id, "parquet")].ok
    /\ label_id' = rerun.id
    /\ clusters' = disk[FileOf(rerun.id, "parquet")].rows
    /\ unlabeled_row' = first_unlabeled(clusters')
    /\ loaded' = clusters'
    /\ pc' = "budget"
    /\ UNCHANGED << rerun, max_tokens, extracts, texts, i, label, disk, exit_code, cause,
                    calls, wrote_meta, failures, recovering, inputs, writes, others >>

\* line 67 raises: <rerun>.parquet is missing or is not a parquet file
SetupStorageError ==
    /\ pc = "start"
    /\ rerun.some
    /\ ~(Exists(FileOf(rerun.id, "parquet")) /\ disk[FileOf(rerun.id, "parquet")].ok)
    /\ label_id' = rerun.id
    /\ Die("storage_error")
    /\ UNCHANGED << rerun, locals, disk, calls, loaded, wrote_meta, failures, recovering, inputs, writes, others >>

\* lines 86-96
Budget ==
    /\ pc = "budget"
    /\ max_tokens' = max_tokens_of(model_max, context)
    /\ pc' = "extract"
    /\ UNCHANGED << rerun, label_id, clusters, unlabeled_row, extracts, texts, i, label,
                    disk, exit_code, cause, calls, loaded, wrote_meta, failures, recovering, inputs, writes, others >>

\* lines 104-113
Extract ==
    /\ pc = "extract"
    /\ texts' = [r \in 1..Len(df_indices) |-> text_of(Df, df_indices[r])]
    /\ extracts' = [r \in 1..Len(df_indices) |-> extract_of(texts'[r], max_tokens)]
    /\ i' = 0
    /\ pc' = "loop"
    /\ UNCHANGED << rerun, label_id, clusters, unlabeled_row, max_tokens, label,
                    disk, exit_code, cause, calls, loaded, wrote_meta, failures, recovering, inputs, writes, others >>

\* line 123 with unlabeled_row = None: TypeError, not caught
LoopTypeError ==
    /\ pc = "loop"
    /\ i < Len(extracts)
    /\ unlabeled_row = NoneRow
    /\ Die("type_error")
    /\ UNCHANGED << rerun, label_id, locals, disk, calls, loaded, wrote_meta, failures, recovering, inputs, writes, others >>

\* lines 123-127
LoopSkip ==
    /\ pc = "loop"
    /\ i < Len(extracts)
    /\ unlabeled_row # NoneRow
    /\ skip_guard(unlabeled_row, clusters, i)
    /\ i' = i + 1
    /\ UNCHANGED << pc, rerun, label_id, clusters, unlabeled_row, max_tokens, extracts,
                    texts, label, disk, exit_code, cause, calls, loaded, wrote_meta,
                    failures, recovering, inputs, writes, others >>

\* lines 129-133: the iteration goes on to the model call
LoopEnter ==
    /\ pc = "loop"
    /\ i < Len(extracts)
    /\ unlabeled_row # NoneRow
    /\ ~skip_guard(unlabeled_row, clusters, i)
    /\ pc' = "chat"
    /\ UNCHANGED << rerun, label_id, locals, disk, exit_code, cause, calls, loaded,
                    wrote_meta, failures, recovering, inputs, writes, others >>

\* line 134 returns
ChatReturn ==
    /\ pc = "chat"
    /\ \E out \in ModelOutputs :
         /\ label' = out
         /\ IF out = NoneValue
            THEN failures < MaxFailures /\ failures' = failures + 1
            ELSE failures' = failures
    /\ calls' = Append(calls, i)
    /\ pc' = "clean"
    /\ UNCHANGED << rerun, label_id, clusters, unlabeled_row, max_tokens, extracts, texts,
                    i, disk, exit_code, cause, loaded, wrote_meta, recovering, inputs, writes, others >>

\* the failing iteration is left with 'break' in place of the exit(1) of line 161
ChatRaiseThenMetadata ==
    /\ pc = "chat"
    /\ failures < MaxFailures
    /\ failures' = failures + 1
    /\ calls' = Append(calls, i)
    /\ pc' = "meta"
    /\ UNCHANGED << rerun, label_id, locals, disk, exit_code, cause, loaded, wrote_meta,
                    recovering, inputs, writes, others >>

\* line 134 raises; lines 157-161
ChatRaise ==
    /\ pc = "chat"
    /\ failures < MaxFailures
    /\ failures' = failures + 1
    /\ calls' = Append(calls, i)
    /\ Die("model_error")
    /\ UNCHANGED << rerun, label_id, locals, disk, loaded, wrote_meta, recovering, inputs, writes, others >>

\* lines 135-149 without the to_parquet of line 154: the labels are kept in memory
CleanWithoutCheckpoint ==
    /\ pc = "clean"
    /\ label # NoneValue
    /\ clusters' = set_entry(clusters, i, label)
    /\ i' = i + 1
    /\ pc' = "loop"
    /\ UNCHANGED << rerun, label_id, unlabeled_row, max_tokens, extracts, texts, label,
                    disk, exit_code, cause, calls, loaded, wrote_meta, failures, recovering,
                    inputs, writes, others >>

\* lines 135-149
Clean ==
    /\ pc = "clean"
    /\ label # NoneValue
    /\ clusters' = set_entry(clusters, i, label)
    /\ pc' = "write"
    /\ UNCHANGED << rerun, label_id, unlabeled_row, max_tokens, extracts, texts, i, label,
                    disk, exit_code, cause, calls, loaded, wrote_meta, failures, recovering, inputs, writes, others >>

\* the failing iteration is left with 'continue' in place of the exit(1) of line 161
CleanRaiseThenContinue ==
    /\ pc = "clean"
    /\ label = NoneValue
    /\ i' = i + 1
    /\ pc' = "loop"
    /\ UNCHANGED << rerun, label_id, clusters, unlabeled_row, max_tokens, extracts, texts,
                    label, disk, exit_code, cause, calls, loaded, wrote_meta, failures,
                    recovering, inputs, writes, others >>

\* line 138 raises on a label that is not a str; lines 157-161
CleanRaise ==
    /\ pc = "clean"
    /\ label = NoneValue
    /\ Die("clean_error")
    /\ UNCHANGED << rerun, label_id, locals, disk, calls, loaded, wrote_meta, failures, recovering, inputs, writes, others >>

\* line 154, to_parquet opens <label_id>.parquet for writing: the file is cut
WriteBegin ==
    /\ pc = "write"
    /\ disk' = Put(disk, FileOf(label_id, "parquet"), Corrupt)
    /\ pc' = "writing"
    /\ UNCHANGED << rerun, label_id, locals, exit_code, cause, calls, loaded, wrote_meta,
                    failures, recovering, inputs, writes, others >>

\* line 154, to_parquet returns: the file holds the whole table; next iteration
WriteEnd ==
    /\ pc = "writing"
    /\ disk' = Put(disk, FileOf(label_id, "parquet"), Table(clusters))
    /\ writes' = writes + 1
    /\ i' = i + 1
    /\ pc' = "loop"
    /\ UNCHANGED << rerun, label_id, clusters, unlabeled_row, max_tokens, extracts, texts,
                    label, exit_code, cause, calls, loaded, wrote_meta, failures, recovering,
                    inputs, others >>

\* line 121: the iterator is exhausted
LoopDone ==
    /\ pc = "loop"
    /\ i >= Len(extracts)
    /\ pc' = "meta"
    /\ UNCHANGED << rerun, label_id, locals, disk, exit_code, cause, calls, loaded,
                    wrote_meta, failures, recovering, inputs, writes, others >>

\* lines 163-178, then the process ends with status 0
WriteMeta ==
    /\ pc = "meta"
    /\ disk' = Put(disk, FileOf(label_id, "json"), Table(<< >>))
    /\ wrote_meta' = TRUE
    /\ pc' = "exited"
    /\ exit_code' = 0
    /\ cause' = "done"
    /\ UNCHANGED << rerun, label_id, locals, calls, loaded, failures, recovering, inputs, writes, others >>

(***************************************************************************)
(* The environment: the process is killed, or the table write fails        *)
(***************************************************************************)
\* external termination at any point of a run
Kill ==
    /\ pc \notin {"idle", "exited"}
    /\ pc' = "exited"
    /\ exit_code' = 137
    /\ cause' = "killed"
    /\ UNCHANGED << rerun, label_id, locals, disk, calls, loaded, wrote_meta, failures, recovering, inputs, writes, others >>

\* line 154 raises before the file is opened for writing; lines 157-161
WriteRaiseAtOpen ==
    /\ pc = "write"
    /\ Die("write_error")
    /\ UNCHANGED << rerun, label_id, locals, disk, calls, loaded, wrote_meta, failures, recovering, inputs, writes, others >>

\* line 154 raises while the file is being written; lines 157-161
WriteRaiseMidway ==
    /\ pc = "writing"
    /\ Die("write_error")
    /\ UNCHANGED << rerun, label_id, locals, disk, calls, loaded, wrote_meta, failures, recovering, inputs, writes, others >>

(***************************************************************************)
(* Specifications                                                          *)
(***************************************************************************)
DefaultFile == FileOf(DefaultId(ClusterId), "parquet")

\* no call of too_many_duplicates from outside the labeler, no scopes, no save request
NoCall == [line |-> << >>, threshold |-> 0, returned |-> << >>]
NoSave == [status |-> 0, file |-> << >>, auto |-> FALSE, number |-> 0, before |-> {}]

InitOthers ==
    /\ dup = NoCall
    /\ scopes = {}
    /\ last_save = NoSave

InitProcess ==
    /\ pc = "idle"
    /\ rerun = None
    /\ label_id = EmptyId
    /\ clusters = << >>
    /\ unlabeled_row = 0
    /\ max_tokens = 0
    /\ extracts = << >>
    /\ texts = << >>
    /\ i = 0
    /\ label = << >>
    /\ exit_code = 0
    /\ cause = "none"
    /\ calls = << >>
    /\ loaded = << >>
    /\ wrote_meta = FALSE
    /\ failures = 0
    /\ recovering = FALSE
    /\ writes = 0

\* the data set of the labeler runs: two records per cluster, record 0 or 1 and record 3
InitInputs ==
    /\ df_indices = [k \in 1..NumClusters |-> << (k - 1) % 2, 3 >>]
    /\ model_max = 2 * Margin
    /\ context = << >>

\* the cluster directory holds the default table only
InitFresh ==
    /\ InitProcess
    /\ InitOthers
    /\ InitInputs
    /\ disk = [f \in {DefaultFile} |-> Table(DefaultRows)]

\* an entry of a run table written earlier, with some other label
OldEntry == [label |-> << "B" >>, label_raw |-> << "B" >>, labeled |-> TRUE]

\* the cluster directory holds the default table and either no run table or the
\* table of run 001, its rows labeled in any positions
InitResume ==
    /\ InitProcess
    /\ InitOthers
    /\ InitInputs
    /\ \/ disk = [f \in {DefaultFile} |-> Table(DefaultRows)]
       \/ \E rows \in [1..NumClusters -> {DefaultEntry, OldEntry}] :
            disk = [f \in {DefaultFile, FileOf(RunId(1), "parquet")} |->
                       IF f = DefaultFile THEN Table(DefaultRows) ELSE Table(rows)]

Next ==
    \/ InvokeMain
    \/ InvokeMainRerun
    \/ InvokeLabelerDefault
    \/ SetupFresh
    \/ SetupRerun
    \/ SetupStorageError
    \/ Budget
    \/ Extract
    \/ LoopTypeError
    \/ LoopSkip
    \/ LoopEnter
    \/ ChatReturn
    \/ ChatRaise
    \/ Clean
    \/ CleanRaise
    \/ WriteBegin
    \/ WriteEnd
    \/ LoopDone
    \/ WriteMeta

NextEnv ==
    \/ Next
    \/ Kill
    \/ WriteRaiseAtOpen
    \/ WriteRaiseMidway

\* runs that start from a directory without run tables
Spec == InitFresh /\ [][Next]_vars

\* runs that start from a directory with one run table, rows labeled in any positions
SpecResume == InitResume /\ [][Next]_vars

\* runs under external termination and failing table writes
SpecEnv == InitFresh /\ [][NextEnv]_vars

\* fresh and resumed runs under external termination and failing table writes
SpecResumeEnv == InitResume /\ [][NextEnv]_vars

\* the caller re-invokes the run that has ended, with the same run identifier
Reinvoke ==
    /\ pc = "exited"
    /\ Start(Some(label_id))

\* one fresh run, re-invoked with its run identifier whenever it has ended
NextRecover ==
    \/ pc = "idle" /\ InvokeMain
    \/ Reinvoke
    \/ SetupFresh
    \/ SetupRerun
    \/ SetupStorageError
    \/ Budget
    \/ Extract
    \/ LoopTypeError
    \/ LoopSkip
    \/ LoopEnter
    \/ ChatReturn
    \/ ChatRaise
    \/ Clean
    \/ CleanRaise
    \/ WriteBegin
    \/ WriteEnd
    \/ LoopDone
    \/ WriteMeta

\* a caller who starts a fresh run and re-invokes it by its run identifier whenever
\* the process has ended, and a model that fails at most MaxFailures times; a
\* process that can take a step takes it
SpecRecover == InitFresh /\ [][NextRecover]_vars /\ WF_vars(NextRecover)

\* a list of at most MaxMembers record ids
MaxMembers == 3
MemberLists == UNION {[1..n -> RecordIds] : n \in 0..MaxMembers}

\* a fresh run at line 86, for any members of cluster 0, capacity and context
InitExtract ==
    /\ rerun = None /\ unlabeled_row = 0 /\ max_tokens = 0 /\ extracts = << >>
    /\ texts = << >> /\ i = 0 /\ label = << >> /\ exit_code = 0 /\ cause = "none"
    /\ calls = << >> /\ wrote_meta = FALSE /\ failures = 0 /\ recovering = FALSE
    /\ writes = 0 /\ InitOthers
    /\ pc = "budget"
    /\ clusters = DefaultRows
    /\ loaded = DefaultRows
    /\ label_id = RunId(1)
    /\ disk = [f \in {DefaultFile} |-> Table(DefaultRows)]
    /\ \E ids \in MemberLists :
         df_indices = [k \in 1..NumClusters |-> IF k = 1 THEN ids ELSE << k - 1 >>]
    /\ model_max \in (Margin + 2)..(2 * Margin)
    /\ context \in { << >>, << "k", " ", "k" >> }

NextExtract ==
    \/ Budget
    \/ Extract

\* lines 86-113 on every cluster of at most MaxMembers records
SpecExtract == InitExtract /\ [][NextExtract]_vars

\* files that may lie in the cluster directory before a fresh run
SampleFiles ==
    {FileOf([cluster |-> ClusterId, suffix |-> d], "parquet") :
        d \in { << "0", "0", "1" >>, << "0", "0", "2" >>, << "0", "0", "9" >>,
                << "7" >>, << "0", "1", "0" >>, << "9", "9", "9" >>,
                << "1", "0", "0", "0" >> }}
    \cup {FileOf([cluster |-> ClusterId, suffix |-> << "0", "5", "0" >>], "json"),
          FileOf([cluster |-> OtherClusterId, suffix |-> << "0", "2", "0" >>], "parquet"),
          FileOf(DefaultId(OtherClusterId), "parquet")}

\* ls-label without --rerun has started, in a directory with any of the sample files
InitRunId ==
    /\ rerun = None /\ unlabeled_row = 0 /\ max_tokens = 0 /\ extracts = << >>
    /\ texts = << >> /\ i = 0 /\ label = << >> /\ exit_code = 0 /\ cause = "none"
    /\ calls = << >> /\ wrote_meta = FALSE /\ failures = 0 /\ recovering = FALSE
    /\ writes = 0 /\ InitOthers
    /\ pc = "start"
    /\ clusters = << >>
    /\ loaded = << >>
    /\ label_id = EmptyId
    /\ InitInputs
    /\ \E files \in SUBSET SampleFiles :
         disk = [f \in files \cup {DefaultFile} |-> Table(DefaultRows)]

NextRunId ==
    \/ SetupFresh
    \/ Budget

\* lines 52-96 of a fresh run in every sample directory
SpecRunId == InitRunId /\ [][NextRunId]_vars

NextFreshRun ==
    \/ SetupFresh
    \/ Budget
    \/ Extract
    \/ LoopEnter
    \/ ChatReturn
    \/ ChatRaise
    \/ Clean
    \/ CleanRaise
    \/ WriteBegin
    \/ WriteEnd
    \/ LoopDone
    \/ WriteMeta

\* one whole fresh run, lines 52-178, in every sample directory
SpecFreshRun == InitRunId /\ [][NextFreshRun]_vars

\* lines 27-34: a call too_many_duplicates(line, threshold) returns
TooManyDuplicates ==
    /\ dup.returned = << >>
    /\ dup' = [dup EXCEPT !.returned = << too_many_duplicates(dup.line, dup.threshold) >>]
    /\ UNCHANGED << labeler_state, scopes, last_save >>

\* text items: at most MaxWords words, with spaces or with a newline and a tab between
\* them, with or without a space in front; the empty item; the null item
MaxWords == 11
MaxThreshold == 2
Words == { << "x" >>, << "x", "y" >> }
WordLists == UNION {[1..n -> Words] : n \in 0..MaxWords}
Items ==
    {NoneValue}
    \cup {join(sep, ws) : sep \in { << " " >>, << NL, "\t" >> }, ws \in WordLists}
    \cup {<< " " >> \o join(<< " " >>, ws) : ws \in WordLists}

\* thresholds: small ones, and the default of line 27
Thresholds == (0..MaxThreshold) \cup {DefaultThreshold}

InitDuplicates ==
    /\ InitProcess
    /\ InitInputs
    /\ disk = [f \in {DefaultFile} |-> Table(DefaultRows)]
    /\ scopes = {}
    /\ last_save = NoSave
    /\ \E line \in Items, threshold \in Thresholds :
         dup = [line |-> line, threshold |-> threshold, returned |-> << >>]

NextDuplicates ==
    \/ TooManyDuplicates

\* too_many_duplicates on every item of at most MaxWords words and every threshold
SpecDuplicates == InitDuplicates /\ [][NextDuplicates]_vars

(***************************************************************************)
(* Scope naming, latentscope/server/datasets.py lines 134-178               *)
(***************************************************************************)
ScopesPrefix == << "s", "c", "o", "p", "e", "s", "-" >>
JsonExt == << ".", "j", "s", "o", "n" >>

\* ord(c) for the characters of the file names in the scopes directory
Ord(c) ==
    CASE c = "-" -> 45
      [] c = "." -> 46
      [] c \in {DigitChar[d] : d \in 1..10} -> 48 + DigitVal(c)
      [] c = "a" -> 97
      [] c = "e" -> 101
      [] c = "j" -> 106
      [] c = "l" -> 108
      [] c = "n" -> 110
      [] c = "o" -> 111
      [] c = "p" -> 112
      [] c = "s" -> 115
      [] c = "c" -> 99

RECURSIVE str_less(_, _)
\* a < b for two str: the order sorted() uses in line 138
str_less(a, b) ==
    IF a = << >> THEN b # << >>
    ELSE IF b = << >> THEN FALSE
    ELSE IF a[1] = b[1] THEN str_less(Tail(a), Tail(b))
    ELSE Ord(a[1]) < Ord(b[1])

\* the length of the run of digits of f that starts at position p
DigitRun(f, p) ==
    Cardinality({q \in p..Len(f) : \A k \in p..q : IsDigits(<< f[k] >>)})

\* line 136: re.match(r"scopes-\d+\.json", f), a match at the start of f
scopes_match(f) ==
    /\ Len(f) >= Len(ScopesPrefix)
    /\ SubSeq(f, 1, Len(ScopesPrefix)) = ScopesPrefix
    /\ LET p == Len(ScopesPrefix) + 1
           n == DigitRun(f, p)
       IN  /\ n >= 1
           /\ Len(f) >= p + n + Len(JsonExt) - 1
           /\ SubSeq(f, p + n, p + n + Len(JsonExt) - 1) = JsonExt

\* line 138: sorted(scopes_files)[-1]
last_of_sorted(files) == CHOOSE f \in files : \A g \in files : g = f \/ str_less(g, f)

\* lines 134-143
get_next_scopes_number(listdir) ==
    LET scopes_files == {f \in listdir : scopes_match(f)}
    IN  IF scopes_files # {}
        THEN int(split_on(split_on(last_of_sorted(scopes_files), "-")[2], ".")[1]) + 1
        ELSE 1

\* the names a client may give to a scope in the request
ExplicitNames ==
    { ScopesPrefix \o << "9" >>,
      ScopesPrefix \o << "0", "0", "2" >>,
      ScopesPrefix \o << "9", "9", "9" >>,
      << "p", "l", "a", "n" >> }

\* the saves go on while the directory holds fewer than MaxScopes files
MaxScopes == 4

\* lines 153-154: the request has no JSON body
SaveInvalid ==
    /\ last_save' = [status |-> 400, file |-> << >>, auto |-> FALSE, number |-> 0,
                      before |-> scopes]
    /\ UNCHANGED << labeler_state, dup, scopes >>

\* lines 155-178 with a name in the request
SaveNamed ==
    /\ Cardinality(scopes) < MaxScopes
    /\ \E name \in ExplicitNames :
         /\ scopes' = scopes \cup {name \o JsonExt}
         /\ last_save' = [status |-> 200, file |-> name \o JsonExt, auto |-> FALSE,
                           number |-> 0, before |-> scopes]
    /\ UNCHANGED << labeler_state, dup >>

\* lines 155-178 without a name in the request: lines 170-173 choose it
SaveAuto ==
    /\ Cardinality(scopes) < MaxScopes
    /\ LET next_scopes_number == get_next_scopes_number(scopes)
            name == ScopesPrefix \o format_03d(next_scopes_number)
       IN  /\ scopes' = scopes \cup {name \o JsonExt}
           /\ last_save' = [status |-> 200, file |-> name \o JsonExt, auto |-> TRUE,
                             number |-> next_scopes_number, before |-> scopes]
    /\ UNCHANGED << labeler_state, dup >>

\* the server before the first save: an empty scopes directory
InitScopes ==
    /\ InitProcess
    /\ InitInputs
    /\ disk = [f \in {DefaultFile} |-> Table(DefaultRows)]
    /\ dup = NoCall
    /\ scopes = {}
    /\ last_save = NoSave

NextScopes ==
    \/ SaveInvalid
    \/ SaveNamed
    \/ SaveAuto

\* save_dataset_scope requests, with and without a name, one after the other
SpecScopes == InitScopes /\ [][NextScopes]_vars

\* model outputs: at most MaxPieces pieces of text, one after the other
MaxPieces == 6
Pieces == { << "a", " " >>, << "b", NL >>, << DQ >>, << SQ, "c" >>, << "\t" >> }

RECURSIVE Concat(_)
Concat(seqs) == IF seqs = << >> THEN << >> ELSE seqs[1] \o Concat(Tail(seqs))

RawOutputs == {Concat(ps) : ps \in UNION {[1..n -> Pieces] : n \in 0..MaxPieces}}

\* a fresh run in which line 134 has just returned, for cluster 0, any of RawOutputs
InitClean ==
    /\ rerun = None /\ unlabeled_row = 0 /\ i = 0 /\ exit_code = 0 /\ cause = "none"
    /\ wrote_meta = FALSE /\ failures = 0 /\ recovering = FALSE
    /\ writes = 0 /\ InitOthers
    /\ InitInputs
    /\ pc = "clean"
    /\ clusters = DefaultRows
    /\ loaded = DefaultRows
    /\ label_id = RunId(1)
    /\ disk = [f \in {DefaultFile} |-> Table(DefaultRows)]
    /\ max_tokens = max_tokens_of(model_max, context)
    /\ texts = [r \in 1..Len(df_indices) |-> text_of(Df, df_indices[r])]
    /\ extracts = [r \in 1..Len(df_indices) |-> extract_of(texts[r], max_tokens)]
    /\ calls = << 0 >>
    /\ label \in RawOutputs

NextClean ==
    \/ Clean
    \/ WriteBegin
    \/ WriteEnd

\* lines 135-154 of one iteration, for every model output of at most MaxPieces pieces
SpecClean == InitClean /\ [][NextClean]_vars

(***************************************************************************)
(* Properties                                                              *)
(***************************************************************************)
RunFile == FileOf(label_id, "parquet")
MetaFile == FileOf(label_id, "json")
Readable(f) == Exists(f) /\ disk[f].ok

Mixed(rows) ==
    /\ \E k \in 1..Len(rows) : rows[k].labeled
    /\ \E k \in 1..Len(rows) : ~rows[k].labeled

\* C1: a run resumed from a table with labeled and unlabeled rows, in whatever
\* positions, calls the model only for rows whose flag was false, each once and in
\* ascending order, leaves the rows that were labeled as they were, in memory and
\* on disk, and has written the table whenever an iteration is over.
C1_ResumeCallsOnlyUnlabeled ==
    (rerun.some /\ Mixed(loaded)) =>
        /\ \A k \in 1..Len(calls) : ~loaded[calls[k] + 1].labeled
        /\ \A j, k \in 1..Len(calls) : j < k => calls[j] < calls[k]
        /\ \A r \in 1..Len(loaded) :
              loaded[r].labeled =>
                 /\ clusters[r] = loaded[r]
                 /\ Readable(RunFile) => disk[RunFile].rows[r] = loaded[r]
        /\ cause = "done" =>
              {calls[k] : k \in 1..Len(calls)} = {r - 1 : r \in {q \in 1..Len(loaded) : ~loaded[q].labeled}}
        /\ pc = "loop" => disk[RunFile] = Table(clusters)

\* C2: when a run that has a table (it resumed one, or has finished an iteration) is
\* killed, at whatever point, the table on disk can be read and shows labeled=true
\* for every cluster whose iteration was over.
C2_KilledRunLeavesLoadableTable ==
    (cause = "killed" /\ loaded # << >> /\ (rerun.some \/ i > 0)) =>
        /\ Readable(RunFile)
        /\ \A c \in 0..(i - 1) : disk[RunFile].rows[c + 1].labeled

\* C3 as claimed, for every index k including 0: a re-invocation, with the same run
\* identifier, of a run that the model failed loads that run's table.
C3_ReinvocationLoadsTable == recovering => cause # "storage_error"

Completed ==
    /\ pc = "exited"
    /\ cause = "done"
    /\ Readable(RunFile)
    /\ AllLabeled(disk[RunFile].rows)
    /\ Exists(MetaFile)

\* The extent of the failure of C3: from an abort at an index k >= 1 the table of the
\* run exists, and re-invocation with the same run identifier, repeated after every
\* further model failure, does lead to every cluster labeled in the run's table and
\* the run's metadata written, once the model has stopped failing.
RecoveryFromLaterIndex == (ModelFailed /\ i >= 1) ~> Completed

RecoveredRun ==
    /\ recovering
    /\ Completed
    /\ failures = MaxFailures
    /\ \E k \in 1..Len(calls) : calls[k] >= 1

\* C4: a fresh run that aborts at cluster k, 1 <= k < N, because the model call, the
\* cleaning step or the table write raised, ends with status 1 and no metadata file,
\* and its table on disk shows labeled=true for exactly the clusters 0..k-1.
C4_FailFastAbort ==
    (/\ pc = "exited"
     /\ ~rerun.some
     /\ cause \in {"model_error", "clean_error", "write_error"}
     /\ 1 <= i
     /\ i < NumClusters) =>
        /\ exit_code = 1
        /\ ~wrote_meta
        /\ ~Exists(MetaFile)
        /\ Readable(RunFile)
        /\ \A r \in 1..NumClusters : disk[RunFile].rows[r].labeled <=> (r - 1 < i)

\* C5: a run that has loaded its table, fresh or resumed from any table, and that ends
\* without a failing model call or cleaning step has gone through every cluster,
\* has written the metadata and ends with status 0; status 1 comes from a failing
\* model invocation only.
C5_CompletesWithoutFailure ==
    (pc = "exited" /\ loaded # << >>) =>
        /\ cause \notin {"model_error", "clean_error"} =>
              (exit_code = 0 /\ wrote_meta /\ i = NumClusters)
        /\ exit_code = 1 => cause \in {"model_error", "clean_error"}

\* C6: a run resumed from a table in which every cluster is labeled makes no model
\* call and leaves every entry of the table, in memory and on disk, as it was.
C6_ResumeFinishedIsNoOp ==
    (rerun.some /\ loaded # << >> /\ AllLabeled(loaded)) =>
        /\ calls = << >>
        /\ clusters = loaded
        /\ disk[RunFile] = Table(loaded)

C6_Witness ==
    /\ rerun.some
    /\ loaded # << >>
    /\ AllLabeled(loaded)
    /\ pc = "exited"
    /\ i = 0

NonEmptyWhenLabeled(rows) ==
    \A r \in 1..Len(rows) :
        rows[r].labeled => (rows[r].label # << >> /\ rows[r].label_raw # << >>)

\* C7: in memory and in every table on disk, an entry with labeled=true has a
\* non-empty label and a non-empty label_raw, whatever the model returned.
C7_LabeledImpliesNonEmpty ==
    /\ NonEmptyWhenLabeled(clusters)
    /\ \A f \in DOMAIN disk : NonEmptyWhenLabeled(disk[f].rows)

\* C8: whatever the model's capacity and the length of the system prompt, the token
\* length of every cluster's digest is at most max_tokens.
C8_DigestWithinBudget ==
    pc = "loop" =>
        \A r \in 1..Len(extracts) : Len(enc_encode(extracts[r])) <= max_tokens

\* the numbers of the run tables of a cluster set in the directory
RunNumbers(cluster_id) ==
    {int(f.stem.suffix) :
        f \in {g \in DOMAIN disk : /\ g.ext = "parquet"
                                   /\ g.stem.cluster = cluster_id
                                   /\ IsDigits(g.stem.suffix)}}

Survivors(items) ==
    SelectSeq(drop_duplicates(items), LAMBDA t : ~too_many_duplicates(t, DefaultThreshold))

NumberedLines(items) == [k \in 1..Len(items) |-> str(k) \o << ".", " " >> \o items[k]]

\* C10: the rendered list of every cluster holds its surviving items one per line,
\* numbered 1, 2, ..., m in order, without gaps.
C10_DigestNumbering ==
    pc = "loop" =>
        \A r \in 1..Len(texts) :
            texts[r] = join(<< NL >>, NumberedLines(Survivors(loc(Df, df_indices[r]))))

RECURSIVE AfterNumber(_)
\* the item of a rendered line: what follows its "n. "
AfterNumber(line) ==
    IF line = << >> THEN << >>
    ELSE IF line[1] = "." THEN Tail(Tail(line))
    ELSE AfterNumber(Tail(line))

\* the items shown by a rendered list, line by line
DigestItems(text) ==
    IF text = << >> THEN << >>
    ELSE LET lines == split_on(text, NL)
         IN  [k \in 1..Len(lines) |-> AfterNumber(lines[k])]

FirstIndex(items, t) ==
    CHOOSE k \in 1..Len(items) : items[k] = t /\ \A j \in 1..(k - 1) : items[j] # t

\* C11: in the rendered list of every cluster (line 109) every item shown is the text
\* of a member of the cluster, no text value is shown twice, and the items are shown
\* in the order of their first occurrence among the cluster's member indices.
C11_DigestDeduplicated ==
    pc = "loop" =>
        \A r \in 1..Len(texts) :
            LET members == loc(Df, df_indices[r])
                shown == DigestItems(texts[r])
            IN  /\ \A k \in 1..Len(shown) : \E j \in 1..Len(members) : members[j] = shown[k]
                /\ \A j, k \in 1..Len(shown) :
                      j < k => /\ shown[j] # shown[k]
                               /\ FirstIndex(members, shown[j]) < FirstIndex(members, shown[k])

\* members "a", "b c", "a": the list is "1. a" and "2. b c"
C11_Witness ==
    /\ pc = "loop"
    /\ df_indices[1] = << 0, 3, 1 >>
    /\ texts[1] = << "1", ".", " ", "a", NL, "2", ".", " ", "b", " ", "c" >>

\* the cleaning transform as specified: quotes removed, the first five words of what
\* is left, one space between them
FirstFiveWords(raw) == join(<< " " >>, PyPrefix(split(Remove(Remove(raw, DQ), SQ)), 5))

CleanedFrom(entry) ==
    /\ entry.label = FirstFiveWords(entry.label_raw)
    /\ \A k \in 1..Len(entry.label) : entry.label[k] \notin {NL, DQ, SQ}
    /\ Len(split(entry.label)) <= 5

\* C12: in memory and in every table on disk, the label of an entry written from a
\* model output is the cleaning transform of the label_raw of the same entry: no
\* newline, no double quote, no single quote, at most 5 whitespace-delimited words.
C12_LabelIsCleanedRaw ==
    /\ \A r \in 1..Len(clusters) : clusters[r].labeled => CleanedFrom(clusters[r])
    /\ \A f \in DOMAIN disk :
          \A r \in 1..Len(disk[f].rows) :
              disk[f].rows[r].labeled => CleanedFrom(disk[f].rows[r])

\* a raw output of six words on three lines: five words are kept
C12_Witness ==
    /\ pc = "loop"
    /\ Readable(RunFile)
    /\ disk[RunFile].rows[1].labeled
    /\ disk[RunFile].rows[1].label_raw =
           << "a", " ", "b", NL, "a", " ", "a", " ", "b", NL, "a", " " >>
    /\ disk[RunFile].rows[1].label =
           << "a", " ", "b", " ", "a", " ", "a", " ", "b" >>

\* position p of s is where a whitespace-delimited token starts
IsTokenStart(s, p) == s[p] \notin Whitespace /\ (p = 1 \/ s[p - 1] \in Whitespace)

\* the token of s that starts at p
TokenAt(s, p) ==
    LET last == CHOOSE q \in p..Len(s) :
                    /\ \A k \in p..q : s[k] \notin Whitespace
                    /\ q = Len(s) \/ s[q + 1] \in Whitespace
    IN  SubSeq(s, p, last)

\* some token of s occurs in s more than threshold times
SomeTokenExceeds(s, threshold) ==
    \E p \in 1..Len(s) :
        /\ IsTokenStart(s, p)
        /\ Cardinality({q \in 1..Len(s) :
                           IsTokenStart(s, q) /\ TokenAt(s, q) = TokenAt(s, p)}) > threshold

\* C13: too_many_duplicates(line, threshold) returns true if and only if some
\* whitespace-delimited token occurs in line strictly more than threshold times; for
\* the empty and the null item it returns false.
C13_DuplicateFilter ==
    dup.returned # << >> =>
        /\ dup.line \in {<< >>, NoneValue} => dup.returned[1] = FALSE
        /\ dup.line # NoneValue =>
              (dup.returned[1] <=> SomeTokenExceeds(dup.line, dup.threshold))

\* "x" 11 times with the default threshold: flagged
C13_Witness ==
    /\ dup.line = Repeat(<< "x" >>, DefaultThreshold + 1)
    /\ dup.threshold = DefaultThreshold
    /\ dup.returned = << TRUE >>

\* C14: a model call starts only when every earlier call of the run that returned a
\* label has been followed by its table write: there is exactly one completed write
\* per earlier call, none is pending, and from the end of a write to the next
\* change of the in-memory table the table on disk equals the table in memory.
C14_CallsAndCheckpointsAlternate ==
    /\ writes <= Len(calls)
    /\ Len(calls) <= writes + 1
    /\ pc = "chat" => writes = Len(calls)
    /\ (pc \in {"loop", "chat"} /\ writes > 0) =>
          (Readable(RunFile) /\ disk[RunFile] = Table(clusters))

\* the third model call of a resumed run is about to start
C14_Witness ==
    /\ pc = "chat"
    /\ rerun.some
    /\ Len(calls) = 2
    /\ writes = 2

\* the table of the run is on disk, readable, with every cluster labeled
TableComplete == Readable(RunFile) /\ AllLabeled(disk[RunFile].rows)

LabeledIsPrefix(rows) ==
    \A j, k \in 1..Len(rows) : (j < k /\ rows[k].labeled) => rows[j].labeled

\* C16: from a fresh run on, through aborts on model failures and re-invocations
\* with the same run identifier, the clusters with labeled=true in a run table on
\* disk are always the first k clusters, for some k.
C16_LabeledPrefix ==
    \A f \in DOMAIN disk : disk[f].ok => LabeledIsPrefix(disk[f].rows)

\* a re-invoked run is about to call the model for cluster 2, clusters 0 and 1 labeled
C16_Witness ==
    /\ recovering
    /\ pc = "chat"
    /\ i = 2
    /\ Readable(RunFile)
    /\ disk[RunFile].rows[1].labeled
    /\ disk[RunFile].rows[2].labeled
    /\ ~disk[RunFile].rows[3].labeled

\* C17: a fresh run is given an id under which no run table exists, every file it
\* creates is the table or the metadata file of that id, and no other file of the
\* directory (tables and metadata of earlier runs, the default table, files of
\* other cluster sets) is removed or changed.
C17_FreshRunTouchesOnlyItsFiles ==
    /\ []((~rerun.some /\ pc = "budget") => ~Exists(RunFile))
    /\ [][~rerun.some =>
             /\ \A f \in (DOMAIN disk') \ (DOMAIN disk) : f \in {RunFile', MetaFile'}
             /\ \A f \in DOMAIN disk :
                   f \notin {RunFile', MetaFile'} => (f \in DOMAIN disk' /\ disk'[f] = disk[f])]_vars

\* a finished fresh run 010 beside the tables of runs 001 and 009, still as they were
C17_Witness ==
    /\ ~rerun.some
    /\ wrote_meta
    /\ label_id = RunId(10)
    /\ TableComplete
    /\ Exists(FileOf(RunId(1), "parquet"))
    /\ disk[FileOf(RunId(1), "parquet")] = Table(DefaultRows)
    /\ Exists(FileOf(RunId(9), "parquet"))
    /\ disk[FileOf(RunId(9), "parquet")] = Table(DefaultRows)

\* C18: a process whose caller supplied no run identifier, on the command line
\* without --rerun or through the default rerun argument of labeler, does not take
\* the resume branch: it starts from the default table, every cluster unlabeled,
\* under a newly numbered run id.
C18_NoIdentifierStartsFresh ==
    (rerun \in {None, Some(EmptyId)} /\ pc \notin {"idle", "start"}) =>
        /\ cause # "storage_error"
        /\ loaded = DefaultRows
        /\ label_id.cluster = ClusterId
        /\ IsDigits(label_id.suffix)

\* the number in the name of a file scopes-<digits>.json
ScopesNumber(f) == int(SubSeq(f, Len(ScopesPrefix) + 1, Len(f) - Len(JsonExt)))

IsScopesFile(f) ==
    /\ Len(f) > Len(ScopesPrefix) + Len(JsonExt)
    /\ SubSeq(f, 1, Len(ScopesPrefix)) = ScopesPrefix
    /\ SubSeq(f, Len(f) - Len(JsonExt) + 1, Len(f)) = JsonExt
    /\ IsDigits(SubSeq(f, Len(ScopesPrefix) + 1, Len(f) - Len(JsonExt)))

\* C19: a save without a name gets a number greater than the number of every file
\* scopes-<digits>.json of the directory, whatever the padding of their names, and
\* writes a file that did not exist before the save.
C19_AutoNameIsNew ==
    last_save.auto =>
        /\ last_save.file \notin last_save.before
        /\ \A f \in last_save.before :
              IsScopesFile(f) => ScopesNumber(f) < last_save.number

====
